---- MODULE Spec2Model ----
(***************************************************************************)
(* A model of the double-pendulum dynamics engine of                        *)
(* src/app/physics/pendulum_physics.py: PathTracer, Pendulum and            *)
(* PendulumSystem, of the events of the simulation scene that drive it      *)
(* (src/app/scenes/simulation_scene.py), and of the settings scene and the  *)
(* ConfigManager (src/app/scenes/settings_scene.py,                         *)
(* src/app/config/config_manager.py).                                       *)
(*                                                                          *)
(* Numbers.  The program computes in floating point.  The model computes in *)
(* integers on the lattice where the trigonometry is exact: an angle is a   *)
(* whole number of quarter turns (PI quarter turns make math.pi), so that   *)
(* sin and cos are -1, 0 or 1, and pointer positions are offered only where *)
(* atan2 and sqrt are exact.  A quotient is truncated to the lattice.       *)
(* A duration is a whole number of 1/SecDen seconds.                        *)
(***************************************************************************)
EXTENDS Integers, Sequences, FiniteSets, TLC

VARIABLES
    tracer,             \* a PathTracer object used on its own
    pendulums,          \* PendulumSystem.pendulums: pendulum_id -> Pendulum
    selected_pendulum,  \* PendulumSystem.selected_pendulum (None or a Pendulum)
    next_pendulum_id,   \* PendulumSystem.next_pendulum_id
    op,                 \* the last operation called, its arguments and its outcome
    calls,              \* the number of calls made on the PendulumSystem so far
    created_with,       \* pendulum_id -> the parameters create_pendulum was given
    dragging,           \* SimulationScene.dragging
    settings,           \* ConfigManager.settings: key -> value
    modified_settings   \* SettingsScene.modified_settings: key -> value

vars == <<tracer, pendulums, selected_pendulum, next_pendulum_id, op, calls,
          created_with, dragging, settings, modified_settings>>

\* the state of the scenes and of the ConfigManager
scenes == <<dragging, settings, modified_settings>>

\* None is the empty sequence, and a value that may be None is a sequence of
\* at most one item
None == <<>>

Some(x) == <<x>>

The(o) == o[1]

(***************************************************************************)
(* Arithmetic                                                              *)
(***************************************************************************)
Abs(x) == IF x < 0 THEN -x ELSE x

Max(x, y) == IF x >= y THEN x ELSE y

Min(x, y) == IF x <= y THEN x ELSE y

\* n / d for d # 0, truncated to the integer lattice
Quot(n, d) ==
    LET q == Abs(n) \div Abs(d)
    IN  IF (n < 0) = (d < 0) THEN q ELSE -q

\* math.pi, in quarter turns
PI == 2

\* math.sin and math.cos of a whole number of quarter turns
Sin(a) == CASE a % 4 = 0 -> 0
            [] a % 4 = 1 -> 1
            [] a % 4 = 2 -> 0
            [] a % 4 = 3 -> -1

Cos(a) == Sin(a + 1)

\* a vector on which math.atan2 and math.sqrt are exact
OnAxis(x, y) == x = 0 \/ y = 0

\* math.atan2(y, x) of a vector on an axis, in quarter turns
Atan2(y, x) == CASE x = 0 /\ y = 0 -> 0
                 [] y = 0 /\ x > 0 -> 0
                 [] x = 0 /\ y > 0 -> 1
                 [] y = 0 /\ x < 0 -> PI
                 [] x = 0 /\ y < 0 -> -1

\* math.sqrt(x*x + y*y) of a vector on an axis
Hypot(x, y) == Abs(x) + Abs(y)

(***************************************************************************)
(* PathTracer                                                              *)
(***************************************************************************)
\* the frame rate set_duration and Pendulum.initialize assume
DefaultFps == 60

\* durations are counted in frames at that rate: a duration of n/SecDen
\* seconds is written n
SecDen == DefaultFps

\* the frame rates offered to set_duration
FpsChoices == {30, DefaultFps}

\* the durations offered to set_duration, in 1/SecDen seconds
MaxDuration == 3

Durations == 0..MaxDuration

\* the points offered to add_point
TracePoints == {<<0, 0>>, <<12, 0>>, <<0, 12>>}

Colors == {"blue", "red"}

\* a deque that refuses a new item when it is full, where the real one drops
\* its leftmost item: FIFO push (C10) fails with it
DequeAppend_RefusesWhenFull(points, maxlen, p) ==
    IF Len(points) < maxlen THEN Append(points, p) ELSE points

\* collections.deque(maxlen=max_points).append: a full deque drops its leftmost item
DequeAppend(points, maxlen, p) ==
    IF maxlen = 0 THEN points
    ELSE IF Len(points) < maxlen THEN Append(points, p)
    ELSE Append(Tail(points), p)

\* PathTracer.__init__
PathTracer(max_points, color) ==
    [points |-> <<>>, max_points |-> max_points, color |-> color, visible |-> TRUE]

\* PathTracer.initialize
PathTracer_initialize(t, max_points, color) ==
    [t EXCEPT !.max_points = max_points, !.points = <<>>, !.color = color]

\* PathTracer.add_point
add_point(t, p) ==
    IF t.visible THEN [t EXCEPT !.points = DequeAppend(t.points, t.max_points, p)]
    ELSE t

\* PathTracer.clear
PathTracer_clear(t) == [t EXCEPT !.points = <<>>]

\* PathTracer.set_color
set_color(t, color) == [t EXCEPT !.color = color]

\* a capacity rounded up, where int() rounds down: the capacity of C8 fails
\* with it
MaxPointsFor_RoundsUp(seconds, fps) == (seconds * fps + SecDen - 1) \div SecDen

\* int(seconds * fps) of a duration of seconds/SecDen seconds
MaxPointsFor(seconds, fps) == (seconds * fps) \div SecDen

\* a loop that keeps the last max_points points, where the real one keeps the
\* first: the kept oldest points of C9 fail with it
PreservedPoints_KeepsNewest(points, max_points) ==
    SubSeq(points, Len(points) - (IF Len(points) < max_points
                                     THEN Len(points) ELSE max_points) + 1,
           Len(points))

\* the loop of set_duration: the points i < max_points, appended in order
PreservedPoints(points, max_points) ==
    LET RECURSIVE Copy(_, _)
        Copy(i, acc) ==
            IF i > Len(points) THEN acc
            ELSE Copy(i + 1, IF i - 1 < max_points
                                THEN DequeAppend(acc, max_points, points[i])
                                ELSE acc)
    IN  Copy(1, <<>>)

\* a set_duration that changes the capacity and keeps every point: the bound
\* of C7 fails with it
set_duration_KeepsEveryPoint(t, seconds, fps) ==
    [t EXCEPT !.max_points = (seconds * fps) \div SecDen]

\* PathTracer.set_duration
set_duration(t, seconds, fps) ==
    LET max_points == MaxPointsFor(seconds, fps)
    IN  [t EXCEPT !.max_points = max_points,
                  !.points = PreservedPoints(t.points, max_points)]

(***************************************************************************)
(* PendulumParams and Pendulum                                             *)
(***************************************************************************)
\* PendulumParams.__init__
PendulumParams(offset_x, offset_y, length1, length2, mass1, mass2, angle1, angle2, velocity1, velocity2, path_color, path_duration, show_wire) ==
    [offset_x |-> offset_x, offset_y |-> offset_y,
     length1 |-> length1, length2 |-> length2,
     mass1 |-> mass1, mass2 |-> mass2,
     angle1 |-> angle1, angle2 |-> angle2,
     velocity1 |-> velocity1, velocity2 |-> velocity2,
     path_color |-> path_color, path_duration |-> path_duration,
     show_wire |-> show_wire]

\* PendulumParams.clone
clone(params) ==
    PendulumParams(params.offset_x, params.offset_y, params.length1, params.length2,
                   params.mass1, params.mass2, params.angle1, params.angle2,
                   params.velocity1, params.velocity2, params.path_color,
                   params.path_duration, params.show_wire)

\* Pendulum.__init__
Pendulum(pendulum_id) ==
    [id |-> pendulum_id,
     path_tracer |-> PathTracer(500, "blue"),
     initial_state |-> None,
     offset_x |-> 0, offset_y |-> 0,
     length1 |-> 120, length2 |-> 120,
     mass1 |-> 10, mass2 |-> 10,
     angle1 |-> Quot(PI, 4), angle2 |-> Quot(PI, 4),
     velocity1 |-> 0, velocity2 |-> 0,
     acceleration1 |-> 0, acceleration2 |-> 0,
     x1 |-> 0, y1 |-> 0, x2 |-> 0, y2 |-> 0,
     show_wire |-> TRUE,
     dragging |-> FALSE, drag_joint |-> 0]

\* Pendulum._calculate_cartesian_positions
calculate_cartesian_positions(b) ==
    LET x1 == b.length1 * Sin(b.angle1)
        y1 == b.length1 * Cos(b.angle1)
    IN  [b EXCEPT !.x1 = x1, !.y1 = y1,
                  !.x2 = x1 + b.length2 * Sin(b.angle2),
                  !.y2 = y1 + b.length2 * Cos(b.angle2)]

\* an initialize that leaves the offsets of the constructor: the created
\* pendulum of C16 fails with it
Pendulum_initialize_KeepsOffsets(b, params) ==
    [b EXCEPT !.initial_state = Some(clone(params)),
              !.offset_x = params.offset_x, !.offset_y = params.offset_y,
              !.length1 = params.length1, !.length2 = params.length2,
              !.mass1 = params.mass1, !.mass2 = params.mass2,
              !.angle1 = params.angle1, !.angle2 = params.angle2,
              !.velocity1 = params.velocity1, !.velocity2 = params.velocity2,
              !.show_wire = params.show_wire,
              !.path_tracer = PathTracer_initialize(
                  @, (params.path_duration * DefaultFps) \div SecDen,
                  params.path_color)]

\* Pendulum.initialize
Pendulum_initialize(b, params) ==
    calculate_cartesian_positions(
        [b EXCEPT !.initial_state = Some(clone(params)),
                  !.offset_x = params.offset_x, !.offset_y = params.offset_y,
                  !.length1 = params.length1, !.length2 = params.length2,
                  !.mass1 = params.mass1, !.mass2 = params.mass2,
                  !.angle1 = params.angle1, !.angle2 = params.angle2,
                  !.velocity1 = params.velocity1, !.velocity2 = params.velocity2,
                  !.show_wire = params.show_wire,
                  !.path_tracer =
                      PathTracer_initialize(b.path_tracer,
                          MaxPointsFor(params.path_duration, DefaultFps),
                          params.path_color)])

\* the factor 2*m1 + m2 - m2*cos(2*a1 - 2*a2) of both denominators
DenFactor(b) == 2 * b.mass1 + b.mass2 - b.mass2 * Cos(2 * b.angle1 - 2 * b.angle2)

\* den of _calculate_acceleration1 and of _calculate_acceleration2
Den1(b) == b.length1 * DenFactor(b)

Den2(b) == b.length2 * DenFactor(b)

\* Pendulum._calculate_acceleration1, where its denominator is not 0
calculate_acceleration1(b, gravity) ==
    LET num1 == -gravity * (2 * b.mass1 + b.mass2) * Sin(b.angle1)
        num2 == -b.mass2 * gravity * Sin(b.angle1 - 2 * b.angle2)
        num3 == -2 * Sin(b.angle1 - b.angle2) * b.mass2
                   * (b.velocity2 * b.velocity2 * b.length2
                      + b.velocity1 * b.velocity1 * b.length1
                        * Cos(b.angle1 - b.angle2))
    IN  Quot(num1 + num2 + num3, Den1(b))

\* Pendulum._calculate_acceleration2, where its denominator is not 0
calculate_acceleration2(b, gravity) ==
    LET num1 == 2 * Sin(b.angle1 - b.angle2)
        num2 == b.velocity1 * b.velocity1 * b.length1 * (b.mass1 + b.mass2)
                + gravity * (b.mass1 + b.mass2) * Cos(b.angle1)
        num3 == b.velocity2 * b.velocity2 * b.length2 * b.mass2
                * Cos(b.angle1 - b.angle2)
    IN  Quot(num1 * (num2 + num3), Den2(b))

\* a float division by zero raises ZeroDivisionError
RaisesZeroDivision(b) == Den1(b) = 0 \/ Den2(b) = 0

\* a reduction modulo 2 pi without the shift by pi: the interval of C2 fails
\* with it
Normalize_WithoutShift(angle) == angle % (2 * PI)

\* ((angle + math.pi) % (2 * math.pi)) - math.pi
Normalize(angle) == ((angle + PI) % (2 * PI)) - PI

\* a half step that leaves the time step out: the zero time step of C20 fails
\* with it
HalfStep_WithoutDt(accel, dt) == Quot(accel, 2)

\* 0.5 * accel * dt
HalfStep(accel, dt) == Quot(accel * dt, 2)

\* a position update that advances the angles by the old velocities, before
\* the half step: the step order of C23 fails with it
PositionUpdate_AnglesFirst(b, dt, gravity) ==
    [b EXCEPT !.velocity1 = @ + HalfStep(calculate_acceleration1(b, gravity), dt),
              !.velocity2 = @ + HalfStep(calculate_acceleration2(b, gravity), dt),
              !.angle1 = Normalize(b.angle1 + b.velocity1 * dt),
              !.angle2 = Normalize(b.angle2 + b.velocity2 * dt)]

\* the half-step velocity update and the full-step position update of
\* _velocity_verlet_step
PositionUpdate(b, dt, gravity) ==
    LET v1 == b.velocity1 + HalfStep(calculate_acceleration1(b, gravity), dt)
        v2 == b.velocity2 + HalfStep(calculate_acceleration2(b, gravity), dt)
    IN  [b EXCEPT !.velocity1 = v1, !.velocity2 = v2,
                  !.angle1 = Normalize(b.angle1 + v1 * dt),
                  !.angle2 = Normalize(b.angle2 + v2 * dt)]

\* the complete velocity update of _velocity_verlet_step
VelocityUpdate(b, dt, gravity) ==
    [b EXCEPT !.velocity1 = b.velocity1
                            + HalfStep(calculate_acceleration1(b, gravity), dt),
              !.velocity2 = b.velocity2
                            + HalfStep(calculate_acceleration2(b, gravity), dt)]

\* Pendulum._velocity_verlet_step: the pendulum it leaves, and what it raised
velocity_verlet_step(b, dt, gravity) ==
    IF RaisesZeroDivision(b)
    THEN [pendulum |-> b, raised |-> Some("ZeroDivisionError")]
    ELSE LET moved == PositionUpdate(b, dt, gravity)
         IN  IF RaisesZeroDivision(moved)
             THEN [pendulum |-> moved, raised |-> Some("ZeroDivisionError")]
             ELSE [pendulum |-> VelocityUpdate(moved, dt, gravity), raised |-> None]

\* an update that takes the step whether or not the pendulum is being dragged:
\* the drag suspension of C1 fails with it
Pendulum_update_IgnoresDrag(b, dt, gravity) ==
    LET step == velocity_verlet_step(b, dt, gravity)
    IN  IF step.raised # None THEN step
        ELSE [pendulum |-> calculate_cartesian_positions(step.pendulum),
              raised |-> None]

\* Pendulum.update: the pendulum it leaves, and what it raised
Pendulum_update(b, dt, gravity) ==
    IF b.dragging
    THEN [pendulum |-> b, raised |-> None]
    ELSE LET step == velocity_verlet_step(b, dt, gravity)
         IN  IF step.raised # None THEN step
             ELSE [pendulum |-> calculate_cartesian_positions(step.pendulum),
                   raised |-> None]

\* the anchor point of a pendulum on a screen with the given centre
Anchor(b, screen_center) ==
    <<screen_center[1] + b.offset_x, screen_center[2] + b.offset_y>>

\* a render that records the second bob also while the pendulum is dragged:
\* the clean trail of C12 fails with it
Pendulum_render_RecordsWhileDragged(b, screen_center) ==
    LET anchor == Anchor(b, screen_center)
    IN  [b EXCEPT !.path_tracer =
            add_point(b.path_tracer, <<anchor[1] + b.x2, anchor[2] + b.y2>>)]

\* Pendulum.render, as far as it changes the pendulum
Pendulum_render(b, screen_center) ==
    LET anchor == Anchor(b, screen_center)
    IN  IF ~b.dragging
        THEN [b EXCEPT !.path_tracer =
                 add_point(b.path_tracer, <<anchor[1] + b.x2, anchor[2] + b.y2>>)]
        ELSE b

\* a reset that also ends the drag: the drag state kept of C30 fails with it
reset_EndsDrag(b) ==
    IF b.initial_state # None
    THEN [Pendulum_initialize(b, The(b.initial_state))
              EXCEPT !.dragging = FALSE, !.drag_joint = 0]
    ELSE b

\* a reset that restores everything but the angular velocities: the restored
\* state of C6 fails with it
reset_KeepsVelocities(b) ==
    IF b.initial_state # None
    THEN [Pendulum_initialize(b, The(b.initial_state))
              EXCEPT !.velocity1 = b.velocity1, !.velocity2 = b.velocity2]
    ELSE b

\* Pendulum.reset
reset(b) ==
    IF b.initial_state # None THEN Pendulum_initialize(b, The(b.initial_state)) ELSE b

\* Pendulum.set_length
set_length(b, rod, value) ==
    calculate_cartesian_positions(
        IF rod = 1 THEN [b EXCEPT !.length1 = value] ELSE [b EXCEPT !.length2 = value])

\* Pendulum.set_mass
set_mass(b, bob, value) ==
    IF bob = 1 THEN [b EXCEPT !.mass1 = value] ELSE [b EXCEPT !.mass2 = value]

\* Pendulum.set_angle
set_angle(b, joint, value) ==
    calculate_cartesian_positions(
        IF joint = 1 THEN [b EXCEPT !.angle1 = value] ELSE [b EXCEPT !.angle2 = value])

\* Pendulum.set_velocity
set_velocity(b, joint, value) ==
    IF joint = 1 THEN [b EXCEPT !.velocity1 = value] ELSE [b EXCEPT !.velocity2 = value]

\* Pendulum.toggle_wire_visibility
toggle_wire_visibility(b) == [b EXCEPT !.show_wire = ~b.show_wire]

\* dist <= max(10, mass), for the distance dist of position from a bob at (x, y)
\* relative to the anchor
NearBob(b, x, y, mass, position, screen_center) ==
    LET anchor == Anchor(b, screen_center)
        dx == position[1] - (anchor[1] + x)
        dy == position[2] - (anchor[2] + y)
        radius == Max(10, mass)
    IN  dx * dx + dy * dy <= radius * radius

\* a hit test that tries the first bob before the second: the priority of the
\* second bob of C11 fails with it
HitJoint_FirstBobFirst(b, position, screen_center) ==
    IF NearBob(b, b.x1, b.y1, b.mass1, position, screen_center) THEN 1
    ELSE IF NearBob(b, b.x2, b.y2, b.mass2, position, screen_center) THEN 2
    ELSE 0

\* the joint Pendulum.start_drag grabs: 2, 1, or 0 when it returns False
HitJoint(b, position, screen_center) ==
    IF NearBob(b, b.x2, b.y2, b.mass2, position, screen_center) THEN 2
    ELSE IF NearBob(b, b.x1, b.y1, b.mass1, position, screen_center) THEN 1
    ELSE 0

\* Pendulum.start_drag: the pendulum it leaves (it returns HitJoint # 0)
start_drag(b, position, screen_center) ==
    LET joint == HitJoint(b, position, screen_center)
    IN  IF joint # 0 THEN [b EXCEPT !.dragging = TRUE, !.drag_joint = joint] ELSE b

\* a drag vector taken from the anchor whichever joint is dragged: the drag of
\* joint 2 of C24 fails with it
DragVector_FromAnchor(b, position, screen_center) ==
    LET anchor == Anchor(b, screen_center)
    IN  <<position[1] - anchor[1], position[2] - anchor[2]>>

\* the vector update_drag takes the angle and the length of
DragVector(b, position, screen_center) ==
    LET anchor == Anchor(b, screen_center)
        rel_x == position[1] - anchor[1]
        rel_y == position[2] - anchor[2]
        first == calculate_cartesian_positions(b)
    IN  IF b.drag_joint = 2 THEN <<rel_x - first.x1, rel_y - first.y1>>
        ELSE <<rel_x, rel_y>>

\* Pendulum.update_drag
update_drag(b, position, screen_center) ==
    IF ~b.dragging THEN b
    ELSE LET v == DragVector(b, position, screen_center)
             angle == Atan2(v[2], v[1])
             new_length == Hypot(v[1], v[2])
         IN  calculate_cartesian_positions(
               CASE b.drag_joint = 1 ->
                      [b EXCEPT !.angle1 = angle,
                                !.length1 = IF new_length > 10 THEN new_length ELSE @,
                                !.velocity1 = 0, !.velocity2 = 0]
                 [] b.drag_joint = 2 ->
                      [calculate_cartesian_positions(b)
                         EXCEPT !.angle2 = angle,
                                !.length2 = IF new_length > 10 THEN new_length ELSE @,
                                !.velocity1 = 0, !.velocity2 = 0]
                 [] OTHER -> b)

\* Pendulum.end_drag
end_drag(b) ==
    [b EXCEPT !.dragging = FALSE, !.drag_joint = 0,
              !.path_tracer = PathTracer_clear(b.path_tracer)]

(***************************************************************************)
(* PendulumSystem                                                          *)
(*                                                                         *)
(* pendulums is the dict pendulum_id -> Pendulum.  A Pendulum object is    *)
(* referred to by its id: selected_pendulum holds None or the id of the    *)
(* object it refers to.  The dict iterates in insertion order, which is    *)
(* the order of the ids: ids are handed out increasing, and the dict is    *)
(* emptied whenever the counter starts again.                              *)
(***************************************************************************)
\* the ids of the dict, in iteration order
Keys(ps) ==
    LET RECURSIVE Sorted(_)
        Sorted(S) == IF S = {} THEN <<>>
                     ELSE LET m == CHOOSE x \in S : \A y \in S : x <= y
                          IN  <<m>> \o Sorted(S \ {m})
    IN  Sorted(DOMAIN ps)

\* the dict with the entry of pendulum_id set to b
Put(ps, pendulum_id, b) ==
    [i \in DOMAIN ps \cup {pendulum_id} |-> IF i = pendulum_id THEN b ELSE ps[i]]

\* a deletion that takes the later entries with it: the removal of exactly one
\* entry of C15 fails with it
Del_DropsLaterEntries(ps, pendulum_id) ==
    [i \in {j \in DOMAIN ps : j < pendulum_id} |-> ps[i]]

\* del pendulums[pendulum_id]
Del(ps, pendulum_id) == [i \in DOMAIN ps \ {pendulum_id} |-> ps[i]]

\* a removal that never touches the selection: the valid selection of C4
\* fails with it
SelectedAfterRemove_KeepsSelection(selected, ps, pendulum_id) == selected

\* the selection remove_pendulum leaves when it removes pendulum_id
SelectedAfterRemove(selected, ps, pendulum_id) ==
    IF selected # None /\ ps[The(selected)].id = pendulum_id THEN None ELSE selected

\* an update that steps the first pendulum of the dict only: the equal
\* trajectories of C19 fail with it
PendulumSystem_update_FirstOnly(ps, dt, gravity) ==
    IF ps = <<>> THEN [pendulums |-> ps, raised |-> None]
    ELSE LET first == Head(Keys(ps))
             r == Pendulum_update(ps[first], dt, gravity)
         IN  [pendulums |-> [ps EXCEPT ![first] = r.pendulum], raised |-> r.raised]

\* PendulumSystem.update: the dict it leaves, and what it raised; a pendulum
\* whose update raises ends the loop
PendulumSystem_update(ps, dt, gravity) ==
    LET RECURSIVE Loop(_, _)
        Loop(keys, acc) ==
            IF keys = <<>> THEN [pendulums |-> acc, raised |-> None]
            ELSE LET r == Pendulum_update(acc[Head(keys)], dt, gravity)
                     next == [acc EXCEPT ![Head(keys)] = r.pendulum]
                 IN  IF r.raised # None
                     THEN [pendulums |-> next, raised |-> r.raised]
                     ELSE Loop(Tail(keys), next)
    IN  Loop(Keys(ps), ps)

\* PendulumSystem.render, as far as it changes the pendulums
PendulumSystem_render(ps, screen_center) ==
    [i \in DOMAIN ps |-> Pendulum_render(ps[i], screen_center)]

\* a lookup that answers with the id it was asked for, stored or not: the
\* not-found result of C14 fails with it
get_pendulum_by_id_AnyId(ps, pendulum_id) == Some(pendulum_id)

\* self.pendulums.get(pendulum_id)
get_pendulum_by_id(ps, pendulum_id) ==
    IF pendulum_id \in DOMAIN ps THEN Some(pendulum_id) ELSE None

\* a scan that returns the last pendulum hit, where the real one returns the
\* first: the ensemble order of C18 fails with it
PendulumAt_LastHit(ps, position, screen_center) ==
    LET hits == {i \in DOMAIN ps : HitJoint(ps[i], position, screen_center) # 0}
    IN  IF hits = {} THEN None
        ELSE Some(CHOOSE i \in hits : \A j \in hits : j <= i)

\* a hit test that looks at the second bob only: the agreement with
\* start_drag of C29 fails with it
Hits_SecondBobOnly(b, position, screen_center) ==
    NearBob(b, b.x2, b.y2, b.mass2, position, screen_center)

\* the test of one pendulum in try_select_pendulum_at_position: the position
\* is near its second bob, or else near its first bob
Hits(b, position, screen_center) ==
    \/ NearBob(b, b.x2, b.y2, b.mass2, position, screen_center)
    \/ NearBob(b, b.x1, b.y1, b.mass1, position, screen_center)

\* the pendulum PendulumSystem.try_select_pendulum_at_position returns: the
\* first in iteration order one of whose bobs is near the position, or None
PendulumAt(ps, position, screen_center) ==
    LET RECURSIVE Scan(_)
        Scan(keys) ==
            IF keys = <<>> THEN None
            ELSE IF Hits(ps[Head(keys)], position, screen_center)
                 THEN Some(Head(keys))
                 ELSE Scan(Tail(keys))
    IN  Scan(Keys(ps))

(***************************************************************************)
(* ConfigManager and SettingsScene                                         *)
(*                                                                         *)
(* settings is the dict of the ConfigManager, restricted to the keys the   *)
(* settings scene edits.  A gravity is a whole number of hundredths of     *)
(* m/s^2, a duration a whole number of 1/SecDen seconds, and a slider      *)
(* value for the frame rate a whole number of half frames per second.      *)
(***************************************************************************)
\* the names of the themes of ConfigManager.themes
Themes == {"light", "dark"}

\* the settings ConfigManager.initialize starts from
DefaultSettings ==
    ("theme" :> "light") @@ ("screen_width" :> 1024) @@ ("screen_height" :> 768)
        @@ ("fps" :> 60) @@ ("simulation.gravity" :> 981)
        @@ ("simulation.default_path_duration" :> 2 * SecDen)

\* ConfigManager.set_setting
set_setting(s, key, value) == Put(s, key, value)

\* ConfigManager.apply_theme, as far as it changes the settings
apply_theme(s, theme_name) == set_setting(s, "theme", theme_name)

\* the entries of the resolution drop-down, and a text that is no resolution
ResolutionTexts == {"1024x768", "1280x720", "custom"}

\* width, height = map(int, resolution_text.split("x")), or None where that
\* raises ValueError
ParseResolution(resolution_text) ==
    CASE resolution_text = "1024x768" -> Some(<<1024, 768>>)
      [] resolution_text = "1280x720" -> Some(<<1280, 720>>)
      [] OTHER -> None

\* int(round(value)) of a value of halves / 2: a tie goes to the even number
RoundHalves(halves) ==
    LET floor == halves \div 2
    IN  IF halves % 2 = 0 THEN floor
        ELSE IF floor % 2 = 0 THEN floor ELSE floor + 1

\* the positions offered to the frame rate slider: 59.5, 60.5 and 120
FpsValues == {119, 121, 240}

\* the positions offered to the gravity slider: 0.0 and 20.0
GravityValues == {0, 2000}

\* the positions offered to the path duration slider: 0.1 s and 10 s
PathDurationValues == {SecDen \div 10, 10 * SecDen}

\* SettingsScene._change_resolution
change_resolution(modified, resolution_text) ==
    LET parsed == ParseResolution(resolution_text)
    IN  IF parsed = None THEN modified
        ELSE Put(Put(modified, "screen_width", The(parsed)[1]),
                 "screen_height", The(parsed)[2])

\* SettingsScene._save_settings: every modified setting is set
save_settings(s, modified) ==
    [k \in DOMAIN s \cup DOMAIN modified |->
        IF k \in DOMAIN modified THEN modified[k] ELSE s[k]]

\* the scenes before any of them is entered
ScenesInit ==
    /\ dragging = FALSE
    /\ settings = DefaultSettings
    /\ modified_settings = <<>>

(***************************************************************************)
(* The operations on a PathTracer that is used on its own                  *)
(***************************************************************************)
\* the record of a call: its name, its arguments, what it returned or raised, and
\* (for the calls on a PathTracer or on a Pendulum, and for update) the object
\* or the dict of pendulums as it was before the call
Call(name, args, ret, before) ==
    [name |-> name, args |-> args, ret |-> ret, before |-> before]

SystemInit ==
    /\ pendulums = <<>>
    /\ selected_pendulum = None
    /\ next_pendulum_id = 0
    /\ calls = 0
    /\ created_with = <<>>

SystemUnchanged ==
    UNCHANGED <<pendulums, selected_pendulum, next_pendulum_id, calls, created_with,
                scenes>>

TracerNew ==
    \E max_points \in 0..MaxDuration, color \in Colors, visible \in BOOLEAN :
        /\ tracer = [PathTracer(max_points, color) EXCEPT !.visible = visible]
        /\ op = Call("PathTracer", <<max_points>>, None, None)

TracerInitialize ==
    \E max_points \in 0..MaxDuration, color \in Colors :
        /\ tracer' = PathTracer_initialize(tracer, max_points, color)
        /\ op' = Call("initialize", <<max_points>>, None, tracer)
        /\ SystemUnchanged

TracerAddPoint ==
    \E p \in TracePoints :
        /\ tracer' = add_point(tracer, p)
        /\ op' = Call("add_point", <<p>>, None, tracer)
        /\ SystemUnchanged

TracerClear ==
    /\ tracer' = PathTracer_clear(tracer)
    /\ op' = Call("clear", <<>>, None, tracer)
    /\ SystemUnchanged

TracerSetColor ==
    \E color \in Colors :
        /\ tracer' = set_color(tracer, color)
        /\ op' = Call("set_color", <<color>>, None, tracer)
        /\ SystemUnchanged

TracerSetDuration ==
    \E seconds \in Durations, fps \in FpsChoices :
        /\ tracer' = set_duration(tracer, seconds, fps)
        /\ op' = Call("set_duration", <<seconds, fps>>, None, tracer)
        /\ SystemUnchanged

InitTrace == TracerNew /\ SystemInit /\ ScenesInit

NextTrace ==
    \/ TracerInitialize
    \/ TracerAddPoint
    \/ TracerClear
    \/ TracerSetColor
    \/ TracerSetDuration

SpecTrace == InitTrace /\ [][NextTrace]_vars

(***************************************************************************)
(* The operations on a PendulumSystem and on the pendulums it holds        *)
(***************************************************************************)
\* at most MaxPendulums ids are handed out before the counter starts again
MaxPendulums == 2

\* at most MaxCalls calls are made on a PendulumSystem and its pendulums
MaxCalls == 4

\* velocities are kept within -MaxVelocity..MaxVelocity
MaxVelocity == 2

\* the ids offered to the lookups: those handed out, and one never handed out
Ids == 0..MaxPendulums

\* the centre of the screen
ScreenCenter == <<0, 0>>

\* the parameters offered to create_pendulum
ParamChoices ==
    { PendulumParams(0, 0, 12, 12, 10, 10, 1, 0, 0, 0, "blue", 2, TRUE),
      PendulumParams(20, 0, 20, 12, 10, 14, PI, 1, 1, 0, "red", 1, FALSE) }

\* the values offered to the setters
LengthChoices == {0, 20}

MassChoices == {0, 14}

AngleChoices == {-1, PI, 5}

VelocityChoices == {1}

\* the time steps and the gravity values offered to update
DtChoices == {0, 1}

GravityChoices == {0, 24}

\* the pointer positions offered to the hit tests and to the drags
Positions == {<<12, 12>>, <<12, 0>>, <<0, 20>>, <<40, 0>>, <<12, 5>>, <<10, 0>>}

TracerUnchanged == UNCHANGED <<tracer, scenes>>

CanCall == calls < MaxCalls

\* one more call, recorded in op
Called(name, args, ret, before) ==
    /\ calls' = calls + 1
    /\ op' = Call(name, args, ret, before)

WithinVelocity(ps) ==
    \A i \in DOMAIN ps : /\ Abs(ps[i].velocity1) <= MaxVelocity
                         /\ Abs(ps[i].velocity2) <= MaxVelocity

\* PendulumSystem.__init__
SystemNew ==
    /\ SystemInit
    /\ op = Call("PendulumSystem", <<>>, None, None)

\* PendulumSystem.initialize
Initialize ==
    /\ CanCall
    /\ pendulums' = <<>>
    /\ created_with' = <<>>
    /\ selected_pendulum' = None
    /\ next_pendulum_id' = 0
    /\ Called("initialize", <<>>, None, None)
    /\ TracerUnchanged

\* PendulumSystem.create_pendulum
CreatePendulum ==
    /\ CanCall
    /\ \E params \in ParamChoices :
        /\ next_pendulum_id < MaxPendulums
        /\ LET pendulum_id == next_pendulum_id
               pendulum == Pendulum_initialize(Pendulum(pendulum_id), params)
           IN  /\ next_pendulum_id' = next_pendulum_id + 1
               /\ pendulums' = Put(pendulums, pendulum_id, pendulum)
               /\ created_with' = Put(created_with, pendulum_id, params)
               /\ selected_pendulum' = Some(pendulum_id)
               /\ Called("create_pendulum", <<params>>, Some(pendulum_id), None)
        /\ TracerUnchanged

\* PendulumSystem.remove_pendulum
RemovePendulum ==
    /\ CanCall
    /\ \E pendulum_id \in Ids :
        /\ IF pendulum_id \in DOMAIN pendulums
           THEN /\ selected_pendulum' =
                       SelectedAfterRemove(selected_pendulum, pendulums, pendulum_id)
                /\ pendulums' = Del(pendulums, pendulum_id)
                /\ created_with' = Del(created_with, pendulum_id)
                /\ Called("remove_pendulum", <<pendulum_id>>, TRUE, None)
           ELSE /\ UNCHANGED <<pendulums, selected_pendulum, created_with>>
                /\ Called("remove_pendulum", <<pendulum_id>>, FALSE, None)
        /\ UNCHANGED <<next_pendulum_id, tracer, scenes>>

\* PendulumSystem.select_pendulum
SelectPendulum ==
    /\ CanCall
    /\ \E pendulum_id \in Ids :
        /\ IF pendulum_id \in DOMAIN pendulums
           THEN /\ selected_pendulum' = Some(pendulum_id)
                /\ Called("select_pendulum", <<pendulum_id>>, Some(pendulum_id), None)
           ELSE /\ UNCHANGED selected_pendulum
                /\ Called("select_pendulum", <<pendulum_id>>, None, None)
        /\ UNCHANGED <<pendulums, next_pendulum_id, tracer, scenes, created_with>>

\* PendulumSystem.get_pendulum_by_id
GetPendulumById ==
    /\ CanCall
    /\ \E pendulum_id \in Ids :
        /\ Called("get_pendulum_by_id", <<pendulum_id>>,
                      get_pendulum_by_id(pendulums, pendulum_id), None)
        /\ UNCHANGED <<pendulums, selected_pendulum, next_pendulum_id, tracer, scenes, created_with>>

\* a clear that starts the counter again: the ids that are never handed out
\* twice of C17 fail with it
Clear_RestartsCounter ==
    /\ CanCall
    /\ pendulums' = <<>>
    /\ created_with' = <<>>
    /\ selected_pendulum' = None
    /\ next_pendulum_id' = 0
    /\ Called("clear", <<>>, None, None)
    /\ UNCHANGED <<tracer, scenes>>

\* PendulumSystem.clear
Clear ==
    /\ CanCall
    /\ pendulums' = <<>>
    /\ created_with' = <<>>
    /\ selected_pendulum' = None
    /\ Called("clear", <<>>, None, None)
    /\ UNCHANGED <<next_pendulum_id, tracer, scenes>>

\* PendulumSystem.try_select_pendulum_at_position
TrySelectPendulumAtPosition ==
    /\ CanCall
    /\ \E position \in Positions :
        LET found == PendulumAt(pendulums, position, ScreenCenter)
        IN  /\ selected_pendulum' = IF found # None THEN found ELSE selected_pendulum
            /\ Called("try_select_pendulum_at_position", <<position>>, found, None)
            /\ UNCHANGED <<pendulums, next_pendulum_id, tracer, scenes, created_with>>

\* PendulumSystem.update
Update ==
    /\ CanCall
    /\ \E dt \in DtChoices, gravity \in GravityChoices :
        LET r == PendulumSystem_update(pendulums, dt, gravity)
        IN  /\ WithinVelocity(r.pendulums)
            /\ pendulums' = r.pendulums
            /\ Called("update", <<dt, gravity>>, r.raised, Some(pendulums))
            /\ UNCHANGED <<selected_pendulum, next_pendulum_id, tracer, scenes, created_with>>

\* PendulumSystem.render
Render ==
    /\ CanCall
    /\ pendulums' = PendulumSystem_render(pendulums, ScreenCenter)
    /\ Called("render", <<>>, None, None)
    /\ UNCHANGED <<selected_pendulum, next_pendulum_id, tracer, scenes, created_with>>

\* a call of a method of the pendulum with the given id
OnPendulum(pendulum_id, after, name, args, ret) ==
    /\ pendulums' = [pendulums EXCEPT ![pendulum_id] = after]
    /\ Called(name, <<pendulum_id>> \o args, ret, Some(pendulums[pendulum_id]))
    /\ UNCHANGED <<selected_pendulum, next_pendulum_id, tracer, scenes, created_with>>

\* Pendulum.reset
Reset ==
    /\ CanCall
    /\ \E i \in DOMAIN pendulums :
        OnPendulum(i, reset(pendulums[i]), "reset", <<>>, None)

\* Pendulum.set_length
SetLength ==
    /\ CanCall
    /\ \E i \in DOMAIN pendulums, rod \in {1, 2}, value \in LengthChoices :
        OnPendulum(i, set_length(pendulums[i], rod, value),
                   "set_length", <<rod, value>>, None)

\* Pendulum.set_mass
SetMass ==
    /\ CanCall
    /\ \E i \in DOMAIN pendulums, bob \in {1, 2}, value \in MassChoices :
        OnPendulum(i, set_mass(pendulums[i], bob, value),
                   "set_mass", <<bob, value>>, None)

\* Pendulum.set_angle
SetAngle ==
    /\ CanCall
    /\ \E i \in DOMAIN pendulums, joint \in {1, 2}, value \in AngleChoices :
        OnPendulum(i, set_angle(pendulums[i], joint, value),
                   "set_angle", <<joint, value>>, None)

\* Pendulum.set_velocity
SetVelocity ==
    /\ CanCall
    /\ \E i \in DOMAIN pendulums, joint \in {1, 2}, value \in VelocityChoices :
        OnPendulum(i, set_velocity(pendulums[i], joint, value),
                   "set_velocity", <<joint, value>>, None)

\* Pendulum.toggle_wire_visibility
ToggleWireVisibility ==
    /\ CanCall
    /\ \E i \in DOMAIN pendulums :
        OnPendulum(i, toggle_wire_visibility(pendulums[i]),
                   "toggle_wire_visibility", <<>>, None)

\* Pendulum.start_drag
StartDrag ==
    /\ CanCall
    /\ \E i \in DOMAIN pendulums, position \in Positions :
        OnPendulum(i, start_drag(pendulums[i], position, ScreenCenter),
                   "start_drag", <<position>>,
                   HitJoint(pendulums[i], position, ScreenCenter) # 0)

\* Pendulum.update_drag
UpdateDrag ==
    /\ CanCall
    /\ \E i \in DOMAIN pendulums, position \in Positions :
        LET v == DragVector(pendulums[i], position, ScreenCenter)
        IN  /\ OnAxis(v[1], v[2])
            /\ OnPendulum(i, update_drag(pendulums[i], position, ScreenCenter),
                          "update_drag", <<position>>, None)

\* Pendulum.end_drag
EndDrag ==
    /\ CanCall
    /\ \E i \in DOMAIN pendulums :
        OnPendulum(i, end_drag(pendulums[i]), "end_drag", <<>>, None)

\* Pendulum.path_tracer.set_duration
SetPathDuration ==
    /\ CanCall
    /\ \E i \in DOMAIN pendulums, seconds \in Durations :
        OnPendulum(i, [pendulums[i] EXCEPT !.path_tracer =
                            set_duration(@, seconds, DefaultFps)],
                   "path_tracer.set_duration", <<seconds>>, None)

Init ==
    /\ SystemNew
    /\ tracer = PathTracer(0, "blue")
    /\ ScenesInit

Next ==
    \/ Initialize
    \/ CreatePendulum
    \/ RemovePendulum
    \/ SelectPendulum
    \/ GetPendulumById
    \/ Clear
    \/ TrySelectPendulumAtPosition
    \/ Update
    \/ Render
    \/ Reset
    \/ SetLength
    \/ SetMass
    \/ SetAngle
    \/ SetVelocity
    \/ ToggleWireVisibility
    \/ StartDrag
    \/ UpdateDrag
    \/ EndDrag
    \/ SetPathDuration

Spec == Init /\ [][Next]_vars

(***************************************************************************)
(* Two pendulums created from the same parameters in one PendulumSystem,   *)
(* and the calls that treat all pendulums of the system alike              *)
(***************************************************************************)
\* the system after create_pendulum(params); create_pendulum(params)
InitPair ==
    \E params \in ParamChoices :
        LET first == Pendulum_initialize(Pendulum(0), params)
            second == Pendulum_initialize(Pendulum(1), params)
        IN  /\ pendulums = Put(Put(<<>>, 0, first), 1, second)
            /\ created_with = Put(Put(<<>>, 0, params), 1, params)
            /\ selected_pendulum = Some(1)
            /\ next_pendulum_id = 2
            /\ calls = 2
            /\ op = Call("create_pendulum", <<params>>, Some(1), None)
            /\ tracer = PathTracer(0, "blue")
            /\ ScenesInit

NextPair ==
    \/ Update
    \/ Render
    \/ SelectPendulum
    \/ GetPendulumById
    \/ TrySelectPendulumAtPosition

SpecPair == InitPair /\ [][NextPair]_vars

(***************************************************************************)
(* The settings scene: the events SettingsScene.handle_event acts on.  In  *)
(* this specification op.before is the settings the ConfigManager held     *)
(* when the scene was entered.                                             *)
(***************************************************************************)
SimulationUnchanged ==
    UNCHANGED <<tracer, pendulums, selected_pendulum, next_pendulum_id, calls,
                created_with, dragging>>

\* the settings scene is the current scene: neither Save nor Cancel has
\* changed to the home scene
SettingsOpen == op.name \notin {"save_button", "cancel_button"}

\* an event of the open settings scene
SettingsEvent(name, args) ==
    /\ SettingsOpen
    /\ op' = Call(name, args, None, op.before)
    /\ SimulationUnchanged

\* SettingsScene.initialize, when SceneManager.change_scene enters the scene
SettingsEnter ==
    /\ ~SettingsOpen
    /\ settings' = apply_theme(settings, settings["theme"])
    /\ modified_settings' = <<>>
    /\ op' = Call("SettingsScene.initialize", <<>>, None, Some(settings'))
    /\ SimulationUnchanged

\* the light and the dark button: SettingsScene._change_theme
ChangeTheme ==
    \E theme_name \in Themes :
        /\ modified_settings' = Put(modified_settings, "theme", theme_name)
        /\ settings' = apply_theme(settings, theme_name)
        /\ SettingsEvent("_change_theme", <<theme_name>>)

\* the resolution drop-down: SettingsScene._change_resolution
ChangeResolution ==
    \E resolution_text \in ResolutionTexts :
        /\ modified_settings' = change_resolution(modified_settings, resolution_text)
        /\ UNCHANGED settings
        /\ SettingsEvent("_change_resolution", <<resolution_text>>)

\* the frame rate slider: SettingsScene._update_fps
UpdateFps ==
    \E value \in FpsValues :
        /\ modified_settings' = Put(modified_settings, "fps", RoundHalves(value))
        /\ UNCHANGED settings
        /\ SettingsEvent("_update_fps", <<value>>)

\* the gravity slider: SettingsScene._update_gravity
UpdateGravity ==
    \E value \in GravityValues :
        /\ modified_settings' = Put(modified_settings, "simulation.gravity", value)
        /\ UNCHANGED settings
        /\ SettingsEvent("_update_gravity", <<value>>)

\* the path duration slider: SettingsScene._update_path_duration
UpdatePathDuration ==
    \E value \in PathDurationValues :
        /\ modified_settings' =
               Put(modified_settings, "simulation.default_path_duration", value)
        /\ UNCHANGED settings
        /\ SettingsEvent("_update_path_duration", <<value>>)

\* the Save button: SettingsScene._save_settings, then the home scene
SaveSettings ==
    /\ settings' = save_settings(settings, modified_settings)
    /\ UNCHANGED modified_settings
    /\ SettingsEvent("save_button", <<>>)

\* the Cancel button: the home scene
CancelSettings ==
    /\ UNCHANGED <<settings, modified_settings>>
    /\ SettingsEvent("cancel_button", <<>>)

\* the settings scene entered with the settings of a ConfigManager that has
\* loaded either theme
InitSettings ==
    /\ SystemInit
    /\ tracer = PathTracer(0, "blue")
    /\ dragging = FALSE
    /\ \E theme_name \in Themes : settings = apply_theme(DefaultSettings, theme_name)
    /\ modified_settings = <<>>
    /\ op = Call("SettingsScene.initialize", <<>>, None, Some(settings))

NextSettings ==
    \/ SettingsEnter
    \/ ChangeTheme
    \/ ChangeResolution
    \/ UpdateFps
    \/ UpdateGravity
    \/ UpdatePathDuration
    \/ SaveSettings
    \/ CancelSettings

SpecSettings == InitSettings /\ [][NextSettings]_vars

(***************************************************************************)
(* The simulation scene: the mouse events and the buttons                  *)
(* SimulationScene.handle_event acts on, after SimulationScene.initialize  *)
(* has created the default pendulum.  In this specification op.before is   *)
(* the dict of pendulums before the event.                                 *)
(***************************************************************************)
\* the right edge of the control panel, left of every pendulum
PanelEdge == -30

\* event.pos[0] > 300: the position is not on the control panel
InSimulationArea(position) == position[1] > PanelEdge

\* the pointer positions of the mouse events: those of the hit tests, the
\* first bob of the second pendulum of the scene, and one on the control panel
ScenePositions == Positions \cup {<<12, -20>>, <<-40, 0>>}

\* the path colours SimulationScene.add_pendulum takes in turn
SceneColors == <<"blue", "red", "green", "yellow", "magenta", "cyan">>

\* the parameters _create_default_pendulum (count = 0) and add_pendulum give
\* to create_pendulum in a system of count pendulums
SceneParams(count) ==
    PendulumParams(IF count > 0 THEN (count % 3) * 20 - 20 ELSE 0,
                   IF count > 0 THEN (count \div 3) * 20 - 20 ELSE 0,
                   12, 12, 10, 10, 1, 0, 0, 0,
                   SceneColors[(count % Len(SceneColors)) + 1],
                   settings["simulation.default_path_duration"], TRUE)

\* an event of the simulation scene
SceneEvent(name, args, ret) ==
    /\ Called(name, args, ret, Some(pendulums))
    /\ UNCHANGED <<tracer, settings, modified_settings>>

\* left MOUSEBUTTONDOWN: _handle_simulation_click where the position is not
\* on the control panel
MouseButtonDown ==
    /\ CanCall
    /\ \E position \in ScenePositions :
        LET found == IF InSimulationArea(position)
                     THEN PendulumAt(pendulums, position, ScreenCenter) ELSE None
        IN  /\ IF found # None
               THEN /\ selected_pendulum' = found
                    /\ pendulums' = [pendulums EXCEPT ![The(found)] =
                                         start_drag(@, position, ScreenCenter)]
                    /\ dragging' =
                           (HitJoint(pendulums[The(found)], position, ScreenCenter) # 0)
               ELSE UNCHANGED <<selected_pendulum, pendulums, dragging>>
            /\ SceneEvent("MOUSEBUTTONDOWN", <<position>>, found)
            /\ UNCHANGED <<next_pendulum_id, created_with>>

\* MOUSEMOTION: _handle_simulation_drag while the scene is dragging
MouseMotion ==
    /\ CanCall
    /\ \E position \in ScenePositions :
        /\ IF dragging /\ InSimulationArea(position) /\ selected_pendulum # None
           THEN LET b == pendulums[The(selected_pendulum)]
                    v == DragVector(b, position, ScreenCenter)
                IN  /\ b.dragging => OnAxis(v[1], v[2])
                    /\ pendulums' = [pendulums EXCEPT ![The(selected_pendulum)] =
                                         update_drag(b, position, ScreenCenter)]
           ELSE UNCHANGED pendulums
        /\ SceneEvent("MOUSEMOTION", <<position>>, None)
        /\ UNCHANGED <<selected_pendulum, next_pendulum_id, created_with, dragging>>

\* left MOUSEBUTTONUP: _handle_simulation_release while the scene is dragging
MouseButtonUp ==
    /\ CanCall
    /\ IF dragging
       THEN /\ pendulums' = IF selected_pendulum # None
                            THEN [pendulums EXCEPT ![The(selected_pendulum)] = end_drag(@)]
                            ELSE pendulums
            /\ dragging' = FALSE
       ELSE UNCHANGED <<pendulums, dragging>>
    /\ SceneEvent("MOUSEBUTTONUP", <<>>, None)
    /\ UNCHANGED <<selected_pendulum, next_pendulum_id, created_with>>

\* the Add button: SimulationScene.add_pendulum
AddPendulum ==
    /\ CanCall
    /\ next_pendulum_id < MaxPendulums
    /\ LET params == SceneParams(Cardinality(DOMAIN pendulums))
           pendulum_id == next_pendulum_id
       IN  /\ pendulums' = Put(pendulums, pendulum_id,
                               Pendulum_initialize(Pendulum(pendulum_id), params))
           /\ created_with' = Put(created_with, pendulum_id, params)
           /\ selected_pendulum' = Some(pendulum_id)
           /\ next_pendulum_id' = next_pendulum_id + 1
           /\ SceneEvent("add_pendulum_button", <<>>, Some(pendulum_id))
    /\ UNCHANGED dragging

\* a Remove button that also removes the last pendulum: the scene that never
\* runs empty of C27 fails with it
RemoveSelectedPendulum_AlsoTheLast ==
    /\ CanCall
    /\ IF selected_pendulum # None
       THEN LET left == Del(pendulums, The(selected_pendulum))
            IN  /\ pendulums' = left
                /\ created_with' = Del(created_with, The(selected_pendulum))
                /\ selected_pendulum' =
                       IF left # <<>> THEN Some(Head(Keys(left)))
                       ELSE SelectedAfterRemove(selected_pendulum, pendulums,
                                                The(selected_pendulum))
       ELSE UNCHANGED <<pendulums, created_with, selected_pendulum>>
    /\ SceneEvent("remove_pendulum_button", <<>>, None)
    /\ UNCHANGED <<next_pendulum_id, dragging>>

\* the Remove button: SimulationScene.remove_selected_pendulum
RemoveSelectedPendulum ==
    /\ CanCall
    /\ IF selected_pendulum # None /\ Cardinality(DOMAIN pendulums) > 1
       THEN LET left == Del(pendulums, The(selected_pendulum))
            IN  /\ pendulums' = left
                /\ created_with' = Del(created_with, The(selected_pendulum))
                /\ selected_pendulum' =
                       IF left # <<>> THEN Some(Head(Keys(left)))
                       ELSE SelectedAfterRemove(selected_pendulum, pendulums,
                                                The(selected_pendulum))
       ELSE UNCHANGED <<pendulums, created_with, selected_pendulum>>
    /\ SceneEvent("remove_pendulum_button", <<>>, None)
    /\ UNCHANGED <<next_pendulum_id, dragging>>

\* the Reset button: SimulationScene.reset_simulation
ResetSimulation ==
    /\ CanCall
    /\ pendulums' = IF selected_pendulum # None
                    THEN [pendulums EXCEPT ![The(selected_pendulum)] = reset(@)]
                    ELSE pendulums
    /\ SceneEvent("reset_button", <<>>, None)
    /\ UNCHANGED <<selected_pendulum, next_pendulum_id, created_with, dragging>>

\* SimulationScene.initialize: an initialized PendulumSystem with the default
\* pendulum
InitScene ==
    /\ settings = DefaultSettings
    /\ modified_settings = <<>>
    /\ dragging = FALSE
    /\ pendulums = Put(<<>>, 0, Pendulum_initialize(Pendulum(0), SceneParams(0)))
    /\ created_with = Put(<<>>, 0, SceneParams(0))
    /\ selected_pendulum = Some(0)
    /\ next_pendulum_id = 1
    /\ calls = 0
    /\ op = Call("SimulationScene.initialize", <<>>, None, None)
    /\ tracer = PathTracer(0, "blue")

NextScene ==
    \/ MouseButtonDown
    \/ MouseMotion
    \/ MouseButtonUp
    \/ AddPendulum
    \/ RemoveSelectedPendulum
    \/ ResetSimulation

SpecScene == InitScene /\ [][NextScene]_vars

(***************************************************************************)
(* Claims about Pendulum and PendulumSystem, checked under Spec            *)
(***************************************************************************)
\* the angles, the velocities and the Cartesian offsets of a pendulum
Motion(b) == <<b.angle1, b.angle2, b.velocity1, b.velocity2, b.x1, b.y1, b.x2, b.y2>>

\* C1: update(dt, gravity), with any dt and gravity, leaves angle1, angle2,
\* velocity1, velocity2 and the offsets x1, y1, x2, y2 of every pendulum that
\* is being dragged unchanged, and leaves it dragging, so that the same holds
\* of every further update until end_drag.
C1_DragSuspension ==
    [][op'.name = "update" =>
          \A i \in DOMAIN pendulums :
              pendulums[i].dragging =>
                  /\ Motion(pendulums'[i]) = Motion(pendulums[i])
                  /\ pendulums'[i].dragging]_vars

\* C1 witness: an update with a time step and gravity found a horizontal first
\* rod, which gravity would turn, held by a drag
C1_Witness ==
    /\ op.name = "update"
    /\ op.args = <<1, 24>>
    /\ op.ret = None
    /\ \E i \in DOMAIN pendulums :
           /\ pendulums[i].dragging
           /\ pendulums[i].angle1 = 1
           /\ pendulums[i].mass1 > 0 /\ pendulums[i].length1 > 0

Consistent(b) ==
    /\ b.x1 = b.length1 * Sin(b.angle1)
    /\ b.y1 = b.length1 * Cos(b.angle1)
    /\ b.x2 = b.x1 + b.length2 * Sin(b.angle2)
    /\ b.y2 = b.y1 + b.length2 * Cos(b.angle2)

\* C3: after any sequence of calls the offsets of every pendulum of the system
\* satisfy x1 = l1 sin(a1), y1 = l1 cos(a1), x2 = x1 + l2 sin(a2),
\* y2 = y1 + l2 cos(a2) for its current angles and lengths.
C3_CartesianConsistency == \A i \in DOMAIN pendulums : Consistent(pendulums[i])

\* the offsets are consistent as long as no update has raised
C3_ConsistentAfterReturn ==
    [][(op'.name = "update" => op'.ret = None)
          => ((\A i \in DOMAIN pendulums : Consistent(pendulums[i]))
                 => (\A i \in DOMAIN pendulums' : Consistent(pendulums'[i])))]_vars

\* C4: the selected pendulum is None or a pendulum stored in the dict under its
\* own id.
C4_SelectionValid ==
    selected_pendulum # None =>
        /\ The(selected_pendulum) \in DOMAIN pendulums
        /\ pendulums[The(selected_pendulum)].id = The(selected_pendulum)

\* C4 witness: the selected pendulum was removed while another one stays
C4_Witness ==
    /\ op.name = "remove_pendulum"
    /\ op.ret = TRUE
    /\ selected_pendulum = None
    /\ pendulums # <<>>

\* C5: set_length and set_mass with a value <= 0 signal InvalidParameter and
\* leave the previous value in place, so that the lengths and the masses of
\* every pendulum created with positive values stay > 0.
C5_InvalidParameterRejected ==
    /\ (op.name \in {"set_length", "set_mass"} /\ op.args[3] <= 0)
           => op.ret = Some("InvalidParameter")
    /\ \A i \in DOMAIN pendulums :
           /\ pendulums[i].length1 > 0 /\ pendulums[i].length2 > 0
           /\ pendulums[i].mass1 > 0 /\ pendulums[i].mass2 > 0

\* C6: reset leaves the angles, the angular velocities, the rod lengths, the
\* masses and the offsets that create_pendulum made from the parameters it was
\* given, whatever was done to the pendulum in between.
C6_ResetRestoresCreated ==
    op.name = "reset" =>
        LET b == pendulums[op.args[1]]
            params == created_with[op.args[1]]
        IN  /\ b.angle1 = params.angle1 /\ b.angle2 = params.angle2
            /\ b.velocity1 = params.velocity1 /\ b.velocity2 = params.velocity2
            /\ b.length1 = params.length1 /\ b.length2 = params.length2
            /\ b.mass1 = params.mass1 /\ b.mass2 = params.mass2
            /\ b.x1 = params.length1 * Sin(params.angle1)
            /\ b.y1 = params.length1 * Cos(params.angle1)
            /\ b.x2 = b.x1 + params.length2 * Sin(params.angle2)
            /\ b.y2 = b.y1 + params.length2 * Cos(params.angle2)

\* C6 witness: a reset of a pendulum that had been moved away from the angle,
\* the velocity and the rod length it was created with
C6_Witness ==
    /\ op.name = "reset"
    /\ \E i \in DOMAIN pendulums :
           /\ op.args[1] = i
           /\ The(op.before).angle1 # created_with[i].angle1
           /\ The(op.before).velocity1 # created_with[i].velocity1
           /\ The(op.before).length1 # created_with[i].length1
           /\ pendulums[i].angle1 = created_with[i].angle1

\* the square of the distance of a pointer from a bob at (x, y) relative to the
\* anchor of b on the screen
Dist2(b, x, y, position) ==
    LET dx == position[1] - (ScreenCenter[1] + b.offset_x + x)
        dy == position[2] - (ScreenCenter[2] + b.offset_y + y)
    IN  dx * dx + dy * dy

\* the pointer is within max(10, mass) of the bob
Within(b, x, y, mass, position) ==
    Dist2(b, x, y, position) <= (IF mass > 10 THEN mass * mass ELSE 100)

\* C11: a pointer within max(10, mass2) of the second bob makes start_drag
\* return True and grab joint 2, also when it is within max(10, mass1) of the
\* first bob; joint 1 is grabbed only when the second bob is missed and the
\* first is hit; when both are missed start_drag returns False and leaves the
\* pendulum, its drag state included, as it was.
C11_SecondBobFirst ==
    op.name = "start_drag" =>
        LET b == The(op.before)
            after == pendulums[op.args[1]]
            position == op.args[2]
            hit2 == Within(b, b.x2, b.y2, b.mass2, position)
            hit1 == Within(b, b.x1, b.y1, b.mass1, position)
        IN  /\ hit2 => (op.ret = TRUE /\ after.dragging /\ after.drag_joint = 2)
            /\ (~hit2 /\ hit1)
                  => (op.ret = TRUE /\ after.dragging /\ after.drag_joint = 1)
            /\ (~hit2 /\ ~hit1) => (op.ret = FALSE /\ after = b)

\* C11 witness: a pointer within reach of both bobs grabbed joint 2
C11_Witness ==
    /\ op.name = "start_drag"
    /\ LET b == The(op.before)
       IN  /\ Within(b, b.x2, b.y2, b.mass2, op.args[2])
           /\ Within(b, b.x1, b.y1, b.mass1, op.args[2])
           /\ <<b.x1, b.y1>> # <<b.x2, b.y2>>
    /\ pendulums[op.args[1]].drag_joint = 2

\* s is a prefix of t
IsPrefix(s, t) == Len(s) <= Len(t) /\ \A k \in 1..Len(s) : s[k] = t[k]

\* C12: end_drag leaves the pendulum not dragging with an empty trace, and a
\* trace gets a point it did not hold only by a render of a pendulum that is
\* not being dragged: in every other step the trace is a prefix of what it
\* was.  Hence every point of a trace was recorded after the last end_drag.
C12_CleanTrailAfterDrag ==
    [][\A i \in DOMAIN pendulums \cap DOMAIN pendulums' :
          LET old == pendulums[i].path_tracer.points
              new == pendulums'[i].path_tracer.points
          IN  /\ (op'.name = "end_drag" /\ op'.args[1] = i)
                    => /\ ~pendulums'[i].dragging
                       /\ pendulums'[i].drag_joint = 0
                       /\ new = <<>>
              /\ ~IsPrefix(new, old)
                    => /\ op'.name = "render"
                       /\ ~pendulums[i].dragging]_vars

\* C12 witness: an end_drag emptied a trace that held a point recorded before
\* the drag
C12_Witness ==
    /\ op.name = "end_drag"
    /\ The(op.before).dragging
    /\ The(op.before).path_tracer.points # <<>>
    /\ pendulums[op.args[1]].path_tracer.points = <<>>

\* C13: update_drag and end_drag on a pendulum that is not being dragged leave
\* the whole pendulum, the contents of its trace included, as it was, and
\* raise nothing.
C13_DragOpsNoOpWhenNotDragging ==
    (op.name \in {"update_drag", "end_drag"} /\ ~The(op.before).dragging)
        => (op.ret = None /\ pendulums[op.args[1]] = The(op.before))

\* C14: select_pendulum and get_pendulum_by_id of an id that is not in the
\* dict return None and remove_pendulum of it returns False; none raises, and
\* the dict, the id counter and the selection are left unchanged.
C14_UnknownIdNotFound ==
    [][(/\ op'.name \in {"select_pendulum", "get_pendulum_by_id", "remove_pendulum"}
        /\ op'.args[1] \notin DOMAIN pendulums)
          => /\ IF op'.name = "remove_pendulum"
                THEN op'.ret = FALSE ELSE op'.ret = None
             /\ pendulums' = pendulums
             /\ next_pendulum_id' = next_pendulum_id
             /\ selected_pendulum' = selected_pendulum]_vars

\* C14 witness: a select_pendulum of an id that is not stored, in a system that
\* holds a selected pendulum
C14_Witness ==
    /\ op.name = "select_pendulum"
    /\ op.args[1] \notin DOMAIN pendulums
    /\ op.ret = None
    /\ selected_pendulum # None

\* C15: remove_pendulum of an id in the dict returns True, deletes exactly that
\* entry and leaves every other pendulum unchanged; the selection becomes None
\* when it was the removed pendulum, and is unchanged otherwise.
C15_RemoveLiveId ==
    [][(op'.name = "remove_pendulum" /\ op'.args[1] \in DOMAIN pendulums)
          => /\ op'.ret = TRUE
             /\ DOMAIN pendulums' = DOMAIN pendulums \ {op'.args[1]}
             /\ \A j \in DOMAIN pendulums' : pendulums'[j] = pendulums[j]
             /\ selected_pendulum' =
                    IF selected_pendulum = Some(op'.args[1])
                    THEN None ELSE selected_pendulum]_vars

\* C15 witness: the removal of the older of two pendulums left the newer one
\* stored and selected
C15_Witness ==
    /\ op.name = "remove_pendulum"
    /\ op.ret = TRUE
    /\ selected_pendulum # None
    /\ \E j \in DOMAIN pendulums : j > op.args[1] /\ selected_pendulum = Some(j)

\* C16: create_pendulum(params) adds exactly one pendulum under the id it
\* returns, with the lengths, masses, angles, velocities, anchor offset and
\* wire flag of params, the offsets computed from them, not dragging, with an
\* empty trace of capacity floor(path_duration * 60), and selects it; the
\* pendulums that existed before are unchanged.
C16_CreatePostcondition ==
    [][op'.name = "create_pendulum"
          => LET pendulum_id == The(op'.ret)
                 params == op'.args[1]
                 b == pendulums'[pendulum_id]
             IN  /\ pendulum_id \notin DOMAIN pendulums
                 /\ DOMAIN pendulums' = DOMAIN pendulums \cup {pendulum_id}
                 /\ \A j \in DOMAIN pendulums : pendulums'[j] = pendulums[j]
                 /\ b.id = pendulum_id
                 /\ b.length1 = params.length1 /\ b.length2 = params.length2
                 /\ b.mass1 = params.mass1 /\ b.mass2 = params.mass2
                 /\ b.angle1 = params.angle1 /\ b.angle2 = params.angle2
                 /\ b.velocity1 = params.velocity1
                 /\ b.velocity2 = params.velocity2
                 /\ b.offset_x = params.offset_x /\ b.offset_y = params.offset_y
                 /\ b.show_wire = params.show_wire
                 /\ b.x1 = params.length1 * Sin(params.angle1)
                 /\ b.y1 = params.length1 * Cos(params.angle1)
                 /\ b.x2 = b.x1 + params.length2 * Sin(params.angle2)
                 /\ b.y2 = b.y1 + params.length2 * Cos(params.angle2)
                 /\ ~b.dragging /\ b.drag_joint = 0
                 /\ b.path_tracer.points = <<>>
                 /\ b.path_tracer.max_points * SecDen <= params.path_duration * 60
                 /\ params.path_duration * 60 < (b.path_tracer.max_points + 1) * SecDen
                 /\ selected_pendulum' = Some(pendulum_id)]_vars

\* C16 witness: a second pendulum, with a first rod that is not vertical, was
\* created next to the first one
C16_Witness ==
    /\ op.name = "create_pendulum"
    /\ op.ret = Some(1)
    /\ 0 \in DOMAIN pendulums
    /\ pendulums[1].x1 # 0
    /\ selected_pendulum = Some(1)

\* C17 as claimed: over any sequence of create_pendulum, remove_pendulum,
\* select_pendulum, clear and initialize the id counter never decreases, every
\* create_pendulum returns the counter and raises it by one (so that no id is
\* handed out twice), and every stored id is smaller than the counter.
C17_Original_CounterNeverDecreases ==
    [][/\ next_pendulum_id' >= next_pendulum_id
       /\ op'.name = "create_pendulum"
             => /\ The(op'.ret) = next_pendulum_id
                /\ next_pendulum_id' = next_pendulum_id + 1
       /\ \A i \in DOMAIN pendulums' : i < next_pendulum_id']_vars

\* C17 as amended: initialize empties the dict and starts the counter again at
\* 0; in every other step the id counter does not decrease, every
\* create_pendulum returns the counter and raises it by one (so that no id is
\* handed out twice between two calls of initialize), and always every stored
\* id is smaller than the counter.
C17_MonotonicIdsBetweenInitialize ==
    [][/\ IF op'.name = "initialize"
          THEN next_pendulum_id' = 0 /\ pendulums' = <<>>
          ELSE next_pendulum_id' >= next_pendulum_id
       /\ op'.name = "create_pendulum"
             => /\ The(op'.ret) = next_pendulum_id
                /\ next_pendulum_id' = next_pendulum_id + 1
       /\ \A i \in DOMAIN pendulums' : i < next_pendulum_id']_vars

\* C17 witness: after a clear, create_pendulum handed out a new id, not the one
\* of the pendulum that was cleared
C17_Witness ==
    /\ op.name = "create_pendulum"
    /\ op.ret = Some(1)
    /\ DOMAIN pendulums = {1}
    /\ next_pendulum_id = 2

\* one of the two bobs of b is within max(10, mass) of the pointer
HitBy(b, position) ==
    \/ Within(b, b.x2, b.y2, b.mass2, position)
    \/ Within(b, b.x1, b.y1, b.mass1, position)

\* C18: try_select_pendulum_at_position returns the first pendulum in dict
\* order one of whose bobs is within max(10, mass) of the pointer and selects
\* it; when there is none it returns None and leaves the selection; in both
\* cases no pendulum is changed.
C18_EnsembleHitTest ==
    [][op'.name = "try_select_pendulum_at_position"
          => LET hits == {i \in DOMAIN pendulums : HitBy(pendulums[i], op'.args[1])}
             IN  /\ pendulums' = pendulums
                 /\ IF hits = {}
                    THEN /\ op'.ret = None
                         /\ selected_pendulum' = selected_pendulum
                    ELSE /\ op'.ret # None
                         /\ The(op'.ret) \in hits
                         /\ \A j \in hits : The(op'.ret) <= j
                         /\ selected_pendulum' = op'.ret]_vars

\* C18 witness: the pointer hit both pendulums of the system, and the first
\* one was returned and is selected in place of the second
C18_Witness ==
    /\ op.name = "try_select_pendulum_at_position"
    /\ op.ret = Some(0)
    /\ selected_pendulum = Some(0)
    /\ 1 \in DOMAIN pendulums
    /\ HitBy(pendulums[0], op.args[1])
    /\ HitBy(pendulums[1], op.args[1])

C20_Original_ZeroStepNoOp ==
    [][(op'.name = "update" /\ op'.args[1] = 0)
          => \A i \in DOMAIN pendulums :
                ~pendulums[i].dragging
                    => /\ pendulums'[i].angle1 = pendulums[i].angle1
                       /\ pendulums'[i].angle2 = pendulums[i].angle2
                       /\ pendulums'[i].velocity1 = pendulums[i].velocity1
                       /\ pendulums'[i].velocity2 = pendulums[i].velocity2]_vars

\* the angle after is the angle before up to whole turns, and the very angle
\* before when that lies in [-pi, pi)
SameDirection(before, after) ==
    /\ (after - before) % (2 * PI) = 0
    /\ (-PI <= before /\ before < PI) => after = before

\* C20 as amended: update with dt = 0 leaves velocity1 and velocity2 of every
\* pendulum that is not being dragged unchanged, and leaves angle1 and angle2
\* unchanged up to whole turns: an angle in [-pi, pi) is kept, an angle
\* outside of it or equal to pi is replaced by its normalised equivalent.
C20_ZeroStepKeepsDirection ==
    [][(op'.name = "update" /\ op'.args[1] = 0)
          => \A i \in DOMAIN pendulums :
                ~pendulums[i].dragging
                    => /\ SameDirection(pendulums[i].angle1, pendulums'[i].angle1)
                       /\ SameDirection(pendulums[i].angle2, pendulums'[i].angle2)
                       /\ pendulums'[i].velocity1 = pendulums[i].velocity1
                       /\ pendulums'[i].velocity2 = pendulums[i].velocity2]_vars

\* C20 witness: an update with dt = 0 under gravity found an angle set to more
\* than a whole turn and left its normalised equivalent, and the velocity
C20_Witness ==
    /\ op.name = "update"
    /\ op.args = <<0, 24>>
    /\ \E i \in DOMAIN pendulums :
           /\ ~pendulums[i].dragging
           /\ The(op.before)[i].angle1 = 5
           /\ pendulums[i].angle1 = 1
           /\ pendulums[i].velocity1 = The(op.before)[i].velocity1

\* C21: a degenerate denominator does not stop a step.  When the denominator
\* length * (2*m1 + m2 - m2*cos(2*a1 - 2*a2)) of a pendulum that is not being
\* dragged is zero (a rod of length 0, or mass1 = 0 with angle1 = angle2),
\* update(dt, gravity) still returns without raising, and it still takes the
\* step of every other pendulum of the system.
C21_DegenerateDenominatorNoCrash ==
    (op.name = "update" /\ \E i \in DOMAIN The(op.before) :
                               /\ ~The(op.before)[i].dragging
                               /\ RaisesZeroDivision(The(op.before)[i]))
        => /\ op.ret = None
           /\ \A j \in DOMAIN The(op.before) :
                  ~RaisesZeroDivision(The(op.before)[j])
                      => pendulums[j] = Pendulum_update(The(op.before)[j],
                                               op.args[1], op.args[2]).pendulum

\* the pendulum b after the half step of both velocities by the accelerations
\* of b, with the angles a1 and a2
HalfStepped(b, a1, a2, dt, gravity) ==
    [b EXCEPT !.velocity1 = @ + HalfStep(calculate_acceleration1(b, gravity), dt),
              !.velocity2 = @ + HalfStep(calculate_acceleration2(b, gravity), dt),
              !.angle1 = a1, !.angle2 = a2]

\* the angle new is a normalised in one reduction modulo 2 pi
NormalizedFrom(new, a) ==
    /\ -PI <= new /\ new < PI
    /\ (new - a) % (2 * PI) = 0

\* C23: the order of one integration step.  For a pendulum that is not being
\* dragged, an update(dt, gravity) that returns computes both old
\* accelerations from the same unmodified old state and adds half of each
\* times dt to the two velocities, advances both angles by the half-updated
\* velocities times dt and normalises them, computes both new accelerations
\* from the same intermediate state (the new normalised angles with the
\* half-step velocities) and finally adds half of each times dt to the
\* velocities; the lengths and the masses are unchanged.  No denominator of
\* the old or of the intermediate state is zero in a step that returns.
C23_StepOrder ==
    (op.name = "update" /\ op.ret = None) =>
        \A i \in DOMAIN The(op.before) :
            LET old == The(op.before)[i]
                new == pendulums[i]
                dt == op.args[1]
                gravity == op.args[2]
                mid == HalfStepped(old, new.angle1, new.angle2, dt, gravity)
            IN  ~old.dragging =>
                    /\ ~RaisesZeroDivision(old)
                    /\ ~RaisesZeroDivision(mid)
                    /\ NormalizedFrom(new.angle1, old.angle1 + mid.velocity1 * dt)
                    /\ NormalizedFrom(new.angle2, old.angle2 + mid.velocity2 * dt)
                    /\ new.velocity1 = mid.velocity1
                           + HalfStep(calculate_acceleration1(mid, gravity), dt)
                    /\ new.velocity2 = mid.velocity2
                           + HalfStep(calculate_acceleration2(mid, gravity), dt)
                    /\ <<new.length1, new.length2, new.mass1, new.mass2>>
                           = <<old.length1, old.length2, old.mass1, old.mass2>>

\* C23 witness: an update took a step in which the half step changed the first
\* velocity, the first angle moved, and the acceleration of the intermediate
\* state was another than that of the old state
C23_Witness ==
    /\ op.name = "update"
    /\ op.ret = None
    /\ \E i \in DOMAIN The(op.before) :
           LET old == The(op.before)[i]
               new == pendulums[i]
               mid == HalfStepped(old, new.angle1, new.angle2, op.args[1], op.args[2])
           IN  /\ ~old.dragging
               /\ mid.velocity1 # old.velocity1
               /\ new.angle1 # old.angle1
               /\ calculate_acceleration1(mid, op.args[2])
                      # calculate_acceleration1(old, op.args[2])

\* the pointer position relative to the first bob of b, computed from the
\* first rod
FromFirstBob(b, position, screen_center) ==
    LET anchor == Anchor(b, screen_center)
    IN  <<position[1] - anchor[1] - b.length1 * Sin(b.angle1),
          position[2] - anchor[2] - b.length1 * Cos(b.angle1)>>

\* the pointer position relative to the anchor of b
FromAnchor(b, position, screen_center) ==
    LET anchor == Anchor(b, screen_center)
    IN  <<position[1] - anchor[1], position[2] - anchor[2]>>

\* C24: update_drag touches only the joint that is dragged.  In a drag of
\* joint 1 it sets angle1 from the pointer relative to the anchor for every
\* pointer position, overwrites length1 only when the pointer is strictly
\* more than 10 from the anchor, sets both velocities to 0, and leaves angle2,
\* length2 and both masses as they were; in a drag of joint 2 it does the same
\* to angle2 and length2 with the pointer relative to the first bob, and
\* leaves angle1 and length1.  The drag state is unchanged.  The vector the
\* angle is taken of lies on an axis, where atan2 is exact on the lattice.
C24_UpdateDragTouchesDraggedJoint ==
    (op.name = "update_drag" /\ The(op.before).dragging) =>
        LET old == The(op.before)
            new == pendulums[op.args[1]]
            v == IF old.drag_joint = 1
                 THEN FromAnchor(old, op.args[2], ScreenCenter)
                 ELSE FromFirstBob(old, op.args[2], ScreenCenter)
            angle == Atan2(v[2], v[1])
            length == IF Hypot(v[1], v[2]) > 10 THEN Hypot(v[1], v[2])
                      ELSE IF old.drag_joint = 1 THEN old.length1 ELSE old.length2
        IN  /\ old.drag_joint \in {1, 2}
            /\ OnAxis(v[1], v[2])
            /\ old.drag_joint = 1 =>
                   /\ <<new.angle1, new.length1>> = <<angle, length>>
                   /\ <<new.angle2, new.length2>> = <<old.angle2, old.length2>>
            /\ old.drag_joint = 2 =>
                   /\ <<new.angle2, new.length2>> = <<angle, length>>
                   /\ <<new.angle1, new.length1>> = <<old.angle1, old.length1>>
            /\ <<new.velocity1, new.velocity2>> = <<0, 0>>
            /\ <<new.mass1, new.mass2>> = <<old.mass1, old.mass2>>
            /\ <<new.dragging, new.drag_joint>> = <<old.dragging, old.drag_joint>>

\* C24 witness: an update_drag of joint 2, with the pointer more than 10 from
\* the first bob, gave the second rod another angle and another length
C24_Witness ==
    /\ op.name = "update_drag"
    /\ The(op.before).dragging
    /\ The(op.before).drag_joint = 2
    /\ pendulums[op.args[1]].length2 # The(op.before).length2
    /\ pendulums[op.args[1]].angle2 # The(op.before).angle2
    /\ The(op.before).length1 # 0

\* an update_drag of joint 1 with the pointer at exactly 10 from the anchor,
\* which keeps the length of the first rod
C24_AtTenKeepsLength ==
    /\ op.name = "update_drag"
    /\ The(op.before).dragging
    /\ The(op.before).drag_joint = 1
    /\ LET v == FromAnchor(The(op.before), op.args[2], ScreenCenter)
       IN  Hypot(v[1], v[2]) = 10
    /\ pendulums[op.args[1]].length1 = The(op.before).length1
    /\ The(op.before).length1 # 10

\* C25: a dragged bob follows the pointer.  After update_drag in a drag of
\* joint 2 with the pointer more than 10 from the first bob, the anchor plus
\* the offsets (x2, y2) of the second bob is the pointer position; after
\* update_drag in a drag of joint 1 with the pointer more than 10 from the
\* anchor, the anchor plus (x1, y1) is the pointer position.
C25_DraggedBobFollowsPointer ==
    (op.name = "update_drag" /\ The(op.before).dragging) =>
        LET old == The(op.before)
            new == pendulums[op.args[1]]
            position == op.args[2]
            anchor == Anchor(new, ScreenCenter)
            v == IF old.drag_joint = 1 THEN FromAnchor(old, position, ScreenCenter)
                 ELSE FromFirstBob(old, position, ScreenCenter)
        IN  Hypot(v[1], v[2]) > 10 =>
                /\ old.drag_joint = 1 =>
                       <<anchor[1] + new.x1, anchor[2] + new.y1>> = position
                /\ old.drag_joint = 2 =>
                       <<anchor[1] + new.x2, anchor[2] + new.y2>> = position

(***************************************************************************)
(* Claims about SimulationScene, checked under SpecScene                   *)
(***************************************************************************)
\* C26: every drag is ended on the pendulum that began it.  After any
\* sequence of left mouse-down, mouse-motion, left mouse-up, add-pendulum,
\* remove-pendulum and reset events, a pendulum is being dragged only if the
\* dragging flag of the scene is set and that pendulum is the selected one,
\* and once a mouse-up has been handled no pendulum is being dragged.
C26_DragEndedOnItsPendulum ==
    /\ \A i \in DOMAIN pendulums :
           pendulums[i].dragging => (dragging /\ selected_pendulum = Some(i))
    /\ op.name = "MOUSEBUTTONUP" => \A i \in DOMAIN pendulums : ~pendulums[i].dragging

\* C27: the simulation scene never runs empty.  After
\* SimulationScene.initialize, in every state reached by add-pendulum,
\* remove-pendulum, reset, click, drag and release events, the system holds
\* at least one pendulum, and its selected pendulum is not None and is one of
\* the stored pendulums.
C27_SceneNeverEmpty ==
    /\ pendulums # <<>>
    /\ selected_pendulum # None
    /\ The(selected_pendulum) \in DOMAIN pendulums
    /\ pendulums[The(selected_pendulum)].id = The(selected_pendulum)

\* C27 witness: the Remove button removed the selected one of two pendulums,
\* and the first of those left is selected
C27_Witness ==
    /\ op.name = "remove_pendulum_button"
    /\ Cardinality(DOMAIN The(op.before)) = 2
    /\ Cardinality(DOMAIN pendulums) = 1
    /\ selected_pendulum = Some(Head(Keys(pendulums)))

\* the Remove button pressed with one pendulum left, which stays
C27_LastPendulumStays ==
    /\ op.name = "remove_pendulum_button"
    /\ Cardinality(DOMAIN The(op.before)) = 1
    /\ pendulums = The(op.before)

(***************************************************************************)
(* Claims about SettingsScene, checked under SpecSettings                  *)
(***************************************************************************)
\* C28: settings are staged until Save.  Any sequence of theme, resolution,
\* frame rate, gravity and path duration changes in the settings scene,
\* followed by Cancel, leaves the settings of the ConfigManager exactly as
\* they were when the scene was entered: they change only when Save is
\* pressed.
C28_StagedUntilSave ==
    op.name # "save_button" => settings = The(op.before)

\* C29: the hit test and start_drag agree.  If
\* try_select_pendulum_at_position(position, screen_center) returns a
\* pendulum, start_drag on that pendulum with the same position and centre
\* succeeds, and it grabs joint 2 exactly when the position is within the
\* radius of the second bob; conversely the pendulum returned is the first in
\* the order of the system on which start_drag would succeed, and None is
\* returned only when it would succeed on none.
C29_HitTestAgreesWithStartDrag ==
    op.name = "try_select_pendulum_at_position" =>
        LET position == op.args[1]
            Grabbed(i) == start_drag(pendulums[i], position, ScreenCenter)
            Succeeds(i) == HitJoint(pendulums[i], position, ScreenCenter) # 0
        IN  /\ op.ret # None =>
                LET b == pendulums[The(op.ret)]
                IN  /\ The(op.ret) \in DOMAIN pendulums
                    /\ Succeeds(The(op.ret))
                    /\ Grabbed(The(op.ret)).dragging
                    /\ Grabbed(The(op.ret)).drag_joint = 2
                           <=> NearBob(b, b.x2, b.y2, b.mass2, position, ScreenCenter)
                    /\ \A j \in DOMAIN pendulums : j < The(op.ret) => ~Succeeds(j)
            /\ op.ret = None => \A j \in DOMAIN pendulums : ~Succeeds(j)

\* C29 witness: the hit test passed over the pendulum created first, on which
\* start_drag fails, and returned the second one, whose first bob start_drag
\* grabs at that position
C29_Witness ==
    /\ op.name = "try_select_pendulum_at_position"
    /\ op.ret = Some(1)
    /\ 0 \in DOMAIN pendulums
    /\ HitJoint(pendulums[0], op.args[1], ScreenCenter) = 0
    /\ start_drag(pendulums[1], op.args[1], ScreenCenter).drag_joint = 1

\* C30: reset does not touch the drag state.  reset on a pendulum in a drag of
\* joint 1 or of joint 2 restores the parameters and empties the trace, and
\* leaves the pendulum in the same drag of the same joint, so that update
\* remains a no-op on it until end_drag; reset on a pendulum that is not being
\* dragged leaves it not dragged.
C30_ResetKeepsDragState ==
    /\ op.name = "reset" =>
           LET old == The(op.before)
               new == pendulums[op.args[1]]
               params == created_with[op.args[1]]
           IN  /\ <<new.dragging, new.drag_joint>> = <<old.dragging, old.drag_joint>>
               /\ <<new.length1, new.length2, new.mass1, new.mass2>>
                      = <<params.length1, params.length2, params.mass1, params.mass2>>
               /\ <<new.angle1, new.angle2, new.velocity1, new.velocity2>>
                      = <<params.angle1, params.angle2, params.velocity1, params.velocity2>>
               /\ new.path_tracer.points = <<>>
    /\ op.name = "update" =>
           \A i \in DOMAIN The(op.before) :
               The(op.before)[i].dragging => pendulums[i] = The(op.before)[i]

\* C30 witness: a reset of a pendulum in a drag of joint 2, whose second rod
\* the drag had given another length, left it in the drag of joint 2
C30_Witness ==
    /\ op.name = "reset"
    /\ The(op.before).dragging
    /\ The(op.before).drag_joint = 2
    /\ The(op.before).length2 # created_with[op.args[1]].length2
    /\ pendulums[op.args[1]].dragging
    /\ pendulums[op.args[1]].drag_joint = 2

C8_TruncationKeepsOldestRun ==
    op.name = "set_duration" =>
        LET seconds == op.args[1]
            fps == op.args[2]
            c == tracer.max_points
            n == Len(op.before.points)
        IN  /\ c * SecDen <= seconds * fps
            /\ seconds * fps < (c + 1) * SecDen
            /\ tracer.points = SubSeq(op.before.points, 1, Min(n, c))

\* C8 witness: a capacity change that cut a trace of three points down to one,
\* with a product seconds * fps that is not a whole number of points
C8_Witness ==
    /\ op.name = "set_duration"
    /\ Len(op.before.points) = 3
    /\ (op.args[1] * op.args[2]) % SecDen # 0
    /\ tracer.max_points = 1
    /\ Len(tracer.points) = 1

\* C9 as claimed: when a capacity change cuts a trace that holds more points
\* than the new capacity, the points that remain are the most recently pushed.
C9_Original_MostRecentKept ==
    (op.name = "set_duration" /\ Len(op.before.points) > tracer.max_points) =>
        LET n == Len(op.before.points)
        IN  tracer.points = SubSeq(op.before.points, n - tracer.max_points + 1, n)

\* C9 as amended: when a capacity change cuts a trace that holds more points
\* than the new capacity, the points that remain are the earliest pushed ones;
\* every point at a position beyond the new capacity, the most recently pushed
\* one among them, is dropped.
C9_OldestKept ==
    (op.name = "set_duration" /\ Len(op.before.points) > tracer.max_points) =>
        /\ Len(tracer.points) = tracer.max_points
        /\ \A i \in 1..Len(tracer.points) : tracer.points[i] = op.before.points[i]

\* C9 witness: a cut that kept the oldest point and dropped a different newest one
C9_Witness ==
    /\ op.name = "set_duration"
    /\ Len(op.before.points) > tracer.max_points
    /\ tracer.max_points >= 1
    /\ tracer.points[1] = op.before.points[1]
    /\ op.before.points[Len(op.before.points)] # tracer.points[Len(tracer.points)]

\* C10 as claimed: add_point on a visible trace makes the point the newest
\* sample, evicting exactly the oldest one when the trace was full; on a trace
\* that is not visible the stored points are unchanged.
C10_Original_PushStoresPoint ==
    op.name = "add_point" =>
        LET old == op.before.points
            p == op.args[1]
            n == Len(old)
        IN  IF op.before.visible
            THEN /\ Len(tracer.points) >= 1
                 /\ tracer.points[Len(tracer.points)] = p
                 /\ IF n = op.before.max_points
                    THEN tracer.points = SubSeq(old, 2, n) \o <<p>>
                    ELSE tracer.points = old \o <<p>>
            ELSE tracer.points = old

\* C10 as amended: add_point on a visible trace of capacity at least 1 makes the
\* point the newest sample, evicting exactly the oldest one when the trace was
\* full and keeping the order of the others; on a visible trace of capacity 0
\* and on a trace that is not visible the stored points are unchanged.
C10_FifoPush ==
    op.name = "add_point" =>
        LET old == op.before.points
            p == op.args[1]
            n == Len(old)
        IN  IF op.before.visible /\ op.before.max_points >= 1
            THEN /\ tracer.points[Len(tracer.points)] = p
                 /\ IF n = op.before.max_points
                    THEN /\ Len(tracer.points) = n
                         /\ \A i \in 1..(n - 1) : tracer.points[i] = old[i + 1]
                    ELSE /\ Len(tracer.points) = n + 1
                         /\ \A i \in 1..n : tracer.points[i] = old[i]
            ELSE tracer.points = old

\* C10 witness: a push that evicted the oldest of three points
C10_Witness ==
    /\ op.name = "add_point"
    /\ op.before.visible
    /\ Len(op.before.points) = 3
    /\ op.before.max_points = 3
    /\ op.before.points[1] # op.before.points[2]
    /\ tracer.points[3] = op.args[1]

====
